---- MODULE Spec2Model ----
(***************************************************************************)
(* pdf-slashannots: redaction of author names and timestamps in PDF        *)
(* annotations (slashannots/main.py).                                      *)
(*                                                                         *)
(* Text values are modelled as sequences of one-character strings where    *)
(* the code inspects or rewrites their characters (the date fields), and   *)
(* as TLA+ strings where it only compares them (subtypes, author names).   *)
(* A PDF dictionary object is a function from its keys to its values, so   *)
(* that `"/T" in obj` is "/T" \in DOMAIN obj.  A collections.Counter is a  *)
(* bag: its keys are BagToSet, ctr[k] is CopiesIn(k, ctr).                 *)
(***************************************************************************)
EXTENDS Integers, Sequences, FiniteSets, Bags, TLC

VARIABLES
    pc,        \* position of main(): start, parsed, constructed, redact, ...
    args,      \* the argparse namespace after parse_args
    infile,    \* the input file as main() has touched it
    outfile,   \* the output file as main() has touched it
    redacter,  \* the PdfAnnotationRedacter's configuration fields
    stats,     \* redacter.stats, the four Counters
    orig,      \* the annotations as the reader delivered them (never written)
    doc,       \* the annotation objects, mutated in place
    idx,       \* index of the next annotation the loop of redact() visits
    padYear,   \* whether the platform's strftime zero-pads %Y to four digits
    tr         \* the truncation harness: a date field truncated once and twice

vars == <<pc, args, infile, outfile, redacter, stats, orig, doc, idx, padYear, tr>>

(***************************************************************************)
(* DatePrecision                                                           *)
(***************************************************************************)
NONE == 0
YEAR == 1
MONTH == 2
DAY == 3
HOUR == 4
MINUTE == 5
SECOND == 6
MICRO == 7

DatePrecision ==
    [NONE |-> NONE, YEAR |-> YEAR, MONTH |-> MONTH, DAY |-> DAY,
     HOUR |-> HOUR, MINUTE |-> MINUTE, SECOND |-> SECOND, MICRO |-> MICRO]

Precisions == {DatePrecision[n] : n \in DOMAIN DatePrecision}

(***************************************************************************)
(* Characters and numbers                                                  *)
(***************************************************************************)
Digits == <<"0", "1", "2", "3", "4", "5", "6", "7", "8", "9">>

IsDigit(c) == \E k \in 1..Len(Digits) : Digits[k] = c

DigitVal(c) == (CHOOSE k \in 1..Len(Digits) : Digits[k] = c) - 1

DigitChar(n) == Digits[n + 1]

\* The decimal digits of n, without padding (%d).
RECURSIVE Decimal(_)
Decimal(n) ==
    IF n < 10 THEN <<DigitChar(n)>>
    ELSE Decimal(n \div 10) \o <<DigitChar(n % 10)>>

\* n zero-padded to at least w digits (%0wd).
RECURSIVE ZeroPad(_, _)
ZeroPad(n, w) ==
    IF Len(Decimal(n)) >= w THEN Decimal(n)
    ELSE <<"0">> \o ZeroPad(n, w - 1)

\* The number written in the w digits of s that start at pos.
RECURSIVE Num(_, _, _)
Num(s, pos, w) ==
    IF w = 0 THEN 0
    ELSE 10 * Num(s, pos, w - 1) + DigitVal(s[pos + w - 1])

AllDigits(s, pos, w) ==
    /\ pos + w - 1 <= Len(s)
    /\ \A k \in pos..(pos + w - 1) : IsDigit(s[k])

(***************************************************************************)
(* datetime                                                                *)
(***************************************************************************)
IsLeap(y) == (y % 4 = 0) /\ ((y % 100 # 0) \/ (y % 400 = 0))

DaysInMonth(y, m) ==
    IF m = 2 THEN (IF IsLeap(y) THEN 29 ELSE 28)
    ELSE IF m \in {4, 6, 9, 11} THEN 30 ELSE 31

\* The range checks of the datetime constructor and of datetime.replace.
ValidDateTime(dt) ==
    /\ dt.year \in 1..9999
    /\ dt.month \in 1..12
    /\ dt.day \in 1..DaysInMonth(dt.year, dt.month)
    /\ dt.hour \in 0..23
    /\ dt.minute \in 0..59
    /\ dt.second \in 0..59
    /\ dt.microsecond \in 0..999999

\* datetime.timezone: a fixed offset strictly inside (-24h, +24h); -00:00 is UTC.
ValidOffset(hh, mm) == hh * 60 + mm < 24 * 60

timezone(sign, hh, mm) ==
    [sign |-> IF hh = 0 /\ mm = 0 THEN 1 ELSE sign, hh |-> hh, mm |-> mm]

ValueError == [exc |-> TRUE]

(***************************************************************************)
(* datetime.strptime(rdate, "D:%Y%m%d%H%M%S%z")                            *)
(*                                                                         *)
(* _strptime compiles the format to the regular expression                 *)
(*   D:(\d\d\d\d)(1[0-2]|0[1-9]|[1-9])(3[0-1]|[1-2]\d|0[1-9]|[1-9])        *)
(*     (2[0-3]|[0-1]\d|\d)([0-5]\d|\d)(6[0-1]|[0-5]\d|\d)                  *)
(*     ([+-]\d\d[0-5]\d|Z)                                                 *)
(* matched from the start of the text, alternatives tried in order (the    *)
(* two-digit ones first), and raises ValueError when nothing matches, when *)
(* text remains after the match, or when the values are out of range.      *)
(* Of the offset's forms, the colon and the seconds part are left out: no  *)
(* text drawn here or written by strftime carries them.                    *)
(***************************************************************************)
\* Smallest and largest value of %m %d %H %M %S in its one- and two-digit forms.
FieldLow == <<1, 1, 0, 0, 0>>

FieldHigh(w) == IF w = 1 THEN <<9, 9, 9, 9, 9>> ELSE <<12, 31, 23, 59, 61>>

\* Field k (1..5 for %m %d %H %M %S) matches w digits at pos.
FieldMatches(s, k, pos, w) ==
    /\ AllDigits(s, pos, w)
    /\ Num(s, pos, w) >= FieldLow[k]
    /\ Num(s, pos, w) <= FieldHigh(w)[k]

\* Length of the %z match at pos; 0 when %z does not match there.
OffsetLen(s, pos) ==
    IF /\ pos <= Len(s)
       /\ s[pos] \in {"+", "-"}
       /\ AllDigits(s, pos + 1, 4)
       /\ DigitVal(s[pos + 3]) <= 5
    THEN 5
    ELSE IF pos <= Len(s) /\ s[pos] = "Z" THEN 1 ELSE 0

NoMatch == <<0>>

\* The widths of the fields k..5 in the first match of the rest of the
\* expression at pos, the two-digit alternative of each field tried first.
RECURSIVE MatchFrom(_, _, _)
MatchFrom(s, k, pos) ==
    IF k = 6 THEN (IF OffsetLen(s, pos) > 0 THEN <<>> ELSE NoMatch)
    ELSE LET two == IF FieldMatches(s, k, pos, 2)
                    THEN MatchFrom(s, k + 1, pos + 2) ELSE NoMatch
         IN  IF two # NoMatch THEN <<2>> \o two
             ELSE LET one == IF FieldMatches(s, k, pos, 1)
                             THEN MatchFrom(s, k + 1, pos + 1) ELSE NoMatch
                  IN  IF one # NoMatch THEN <<1>> \o one ELSE NoMatch

\* Where field k starts when the fields before it have the widths w.
RECURSIVE FieldPos(_, _)
FieldPos(w, k) == IF k = 1 THEN 7 ELSE FieldPos(w, k - 1) + w[k - 1]

FieldValue(s, w, k) == Num(s, FieldPos(w, k), w[k])

ParseOffset(s, pos) ==
    IF s[pos] = "Z" THEN timezone(1, 0, 0)
    ELSE timezone(IF s[pos] = "-" THEN -1 ELSE 1, Num(s, pos + 1, 2), Num(s, pos + 3, 2))

strptime(s) ==
    IF ~(Len(s) >= 2 /\ s[1] \in {"D", "d"} /\ s[2] = ":" /\ AllDigits(s, 3, 4))
    THEN ValueError
    ELSE
        LET w == MatchFrom(s, 1, 7)
        IN  IF w = NoMatch THEN ValueError
            ELSE
                LET zpos == FieldPos(w, 6)
                    dt == [year |-> Num(s, 3, 4),
                           month |-> FieldValue(s, w, 1),
                           day |-> FieldValue(s, w, 2),
                           hour |-> FieldValue(s, w, 3),
                           minute |-> FieldValue(s, w, 4),
                           second |-> FieldValue(s, w, 5),
                           microsecond |-> 0,
                           tzinfo |-> ParseOffset(s, zpos)]
                IN  IF zpos + OffsetLen(s, zpos) # Len(s) + 1 THEN ValueError
                    ELSE IF ~ValidOffset(dt.tzinfo.hh, dt.tzinfo.mm) THEN ValueError
                    ELSE IF ~ValidDateTime(dt) THEN ValueError
                    ELSE [exc |-> FALSE, value |-> dt]

(***************************************************************************)
(* date.strftime("D:%Y%m%d%H%M%S%z")                                       *)
(*                                                                         *)
(* %Y is the C library's: zero-padded to four digits on some platforms,    *)
(* the plain decimal number on others (glibc); pad says which.             *)
(***************************************************************************)
strftime(dt, pad) ==
    <<"D", ":">>
    \o (IF pad THEN ZeroPad(dt.year, 4) ELSE Decimal(dt.year))
    \o ZeroPad(dt.month, 2) \o ZeroPad(dt.day, 2)
    \o ZeroPad(dt.hour, 2) \o ZeroPad(dt.minute, 2) \o ZeroPad(dt.second, 2)
    \o <<IF dt.tzinfo.sign = 1 THEN "+" ELSE "-">>
    \o ZeroPad(dt.tzinfo.hh, 2) \o ZeroPad(dt.tzinfo.mm, 2)

(***************************************************************************)
(* parse_date, format_date                                                 *)
(***************************************************************************)
NotApostrophe(c) == c # "'"

\* The apostrophes of the offset left in: the text goes to strptime as read.
parse_date_quoted(rdate) == strptime(rdate)

parse_date(rdate) == strptime(SelectSeq(rdate, NotApostrophe))

format_date(date) == strftime(date, padYear)

(***************************************************************************)
(* PdfAnnotationRedacter.redact_date                                       *)
(***************************************************************************)
replace(date, field, value) == [date EXCEPT ![field] = value]

\* The comparisons off by one (<= for <): the component of the precision's own
\* level is reset too.
Truncated_inclusive(date, precision) ==
    LET d1 == IF precision <= MICRO THEN replace(date, "microsecond", 0) ELSE date
        d2 == IF precision <= SECOND THEN replace(d1, "second", 0) ELSE d1
        d3 == IF precision <= MINUTE THEN replace(d2, "minute", 0) ELSE d2
        d4 == IF precision <= HOUR THEN replace(d3, "hour", 0) ELSE d3
        d5 == IF precision <= DAY THEN replace(d4, "day", 1) ELSE d4
        d6 == IF precision <= MONTH THEN replace(d5, "month", 1) ELSE d5
        d7 == IF precision <= YEAR THEN replace(d6, "year", 1970) ELSE d6
    IN  IF \A d \in {d1, d2, d3, d4, d5, d6, d7} : ValidDateTime(d)
        THEN [exc |-> FALSE, value |-> d7]
        ELSE ValueError

Truncated(date, precision) ==
    LET d1 == IF precision < MICRO THEN replace(date, "microsecond", 0) ELSE date
        d2 == IF precision < SECOND THEN replace(d1, "second", 0) ELSE d1
        d3 == IF precision < MINUTE THEN replace(d2, "minute", 0) ELSE d2
        d4 == IF precision < HOUR THEN replace(d3, "hour", 0) ELSE d3
        d5 == IF precision < DAY THEN replace(d4, "day", 1) ELSE d4
        d6 == IF precision < MONTH THEN replace(d5, "month", 1) ELSE d5
        d7 == IF precision < YEAR THEN replace(d6, "year", 1970) ELSE d6
    IN  IF \A d \in {d1, d2, d3, d4, d5, d6, d7} : ValidDateTime(d)
        THEN [exc |-> FALSE, value |-> d7]
        ELSE ValueError

\* The object after redact_date(obj, date_type), or exc when it raised.
redact_date(obj, date_type, precision) ==
    LET parsed == parse_date(obj[date_type])
    IN  IF parsed.exc THEN [exc |-> TRUE, obj |-> obj]
        ELSE LET date == Truncated(parsed.value, precision)
             IN  IF date.exc THEN [exc |-> TRUE, obj |-> obj]
                 ELSE [exc |-> FALSE,
                       obj |-> [obj EXCEPT ![date_type] = format_date(date.value)]]

(***************************************************************************)
(* DatePrecision.argparse                                                  *)
(***************************************************************************)
LowerCase == <<"a", "b", "c", "d", "e", "f", "g", "h", "i", "j", "k", "l", "m",
               "n", "o", "p", "q", "r", "s", "t", "u", "v", "w", "x", "y", "z">>

UpperCase == <<"A", "B", "C", "D", "E", "F", "G", "H", "I", "J", "K", "L", "M",
               "N", "O", "P", "Q", "R", "S", "T", "U", "V", "W", "X", "Y", "Z">>

UpperChar(c) ==
    IF \E k \in 1..Len(LowerCase) : LowerCase[k] = c
    THEN UpperCase[CHOOSE k \in 1..Len(LowerCase) : LowerCase[k] = c]
    ELSE c

\* str.upper
upper(s) == [k \in 1..Len(s) |-> UpperChar(s[k])]

\* The member names of the enum, by value.
MemberName(v) ==
    CASE v = NONE -> <<"N", "O", "N", "E">>
      [] v = YEAR -> <<"Y", "E", "A", "R">>
      [] v = MONTH -> <<"M", "O", "N", "T", "H">>
      [] v = DAY -> <<"D", "A", "Y">>
      [] v = HOUR -> <<"H", "O", "U", "R">>
      [] v = MINUTE -> <<"M", "I", "N", "U", "T", "E">>
      [] v = SECOND -> <<"S", "E", "C", "O", "N", "D">>
      [] v = MICRO -> <<"M", "I", "C", "R", "O">>

\* DatePrecision[s.upper()], and s itself on KeyError: the result is a member
\* of the enum (member, with its value) or the text as it was given.
DatePrecision_argparse(s) ==
    IF \E v \in Precisions : MemberName(v) = upper(s)
    THEN [member |-> TRUE, value |-> CHOOSE v \in Precisions : MemberName(v) = upper(s)]
    ELSE [member |-> FALSE, text |-> s]

(***************************************************************************)
(* AnnotationStats                                                         *)
(***************************************************************************)
AnnotationStats ==
    [authorship_ctr |-> EmptyBag,
     redacted_authorships |-> EmptyBag,
     redacted_cdates |-> EmptyBag,
     redacted_mdates |-> EmptyBag]

\* ctr[key] += 1
Incr(ctr, key) == ctr (+) SetToBag({key})

\* The three assertions at the top of pprint_stats.
pprint_stats_asserts(st) ==
    LET authors == BagToSet(st.authorship_ctr)
    IN  /\ BagToSet(st.redacted_authorships) \subseteq authors
        /\ BagToSet(st.redacted_cdates) \subseteq authors
        /\ BagToSet(st.redacted_mdates) \subseteq authors

(***************************************************************************)
(* PdfAnnotationRedacter                                                   *)
(***************************************************************************)
None == "None"

DEFAULT_REDACTED_AUTHOR == "unknown"

PdfAnnotationRedacter(included_authors, redact_author, precision, redacted_author_name) ==
    [included_authors |-> {included_authors[k] : k \in 1..Len(included_authors)},
     redact_author |-> redact_author,
     precision |-> precision,
     redacted_author |-> redacted_author_name]

\* The property without its "not": a filter is taken for none, and none for one.
is_clear_all_inverted(self) == self.included_authors # {}

is_clear_all(self) == self.included_authors = {}

\* The subtype compared without the slash of the PDF name: nothing is ignored.
IgnoredSubtype_noslash(subtype) == subtype = "Link"

\* "ignore /Link"
IgnoredSubtype(subtype) == subtype = "/Link"

\* The author read back after it was overwritten: the name is counted, and the
\* dates are keyed, under the replacement name.
RedactAuthor_keyedByNewName(self, st, obj) ==
    IF "/T" \in DOMAIN obj
    THEN LET author == obj["/T"]
             st1 == [st EXCEPT !.authorship_ctr = Incr(@, author)]
         IN  IF ~is_clear_all(self) /\ author \notin self.included_authors
             THEN [returned |-> TRUE, obj |-> obj, stats |-> st1, author |-> author]
             ELSE IF self.redact_author
             THEN [returned |-> FALSE,
                   obj |-> [obj EXCEPT !["/T"] = self.redacted_author],
                   stats |-> [st1 EXCEPT !.redacted_authorships =
                                             Incr(@, self.redacted_author)],
                   author |-> self.redacted_author]
             ELSE [returned |-> FALSE, obj |-> obj, stats |-> st1, author |-> author]
    ELSE IF ~is_clear_all(self)
         THEN [returned |-> TRUE, obj |-> obj, stats |-> st, author |-> ""]
         ELSE [returned |-> FALSE, obj |-> obj, stats |-> st, author |-> ""]

\* The author branch: the object and the stats after lines 107-125, and
\* whether the method returned there.
RedactAuthor(self, st, obj) ==
    IF "/T" \in DOMAIN obj
    THEN LET author == obj["/T"]
             st1 == [st EXCEPT !.authorship_ctr = Incr(@, author)]
         IN  IF ~is_clear_all(self) /\ author \notin self.included_authors
             THEN [returned |-> TRUE, obj |-> obj, stats |-> st1, author |-> author]
             ELSE IF self.redact_author
             THEN [returned |-> FALSE,
                   obj |-> [obj EXCEPT !["/T"] = self.redacted_author],
                   stats |-> [st1 EXCEPT !.redacted_authorships = Incr(@, author)],
                   author |-> author]
             ELSE [returned |-> FALSE, obj |-> obj, stats |-> st1, author |-> author]
    ELSE IF ~is_clear_all(self)
         THEN [returned |-> TRUE, obj |-> obj, stats |-> st, author |-> ""]
         ELSE [returned |-> FALSE, obj |-> obj, stats |-> st, author |-> ""]

\* The counter incremented outside the test for the key: an absent date counts.
RedactDateField_countsAbsent(self, st, obj, author, date_type, counter) ==
    IF date_type \in DOMAIN obj
    THEN LET r == redact_date(obj, date_type, self.precision)
         IN  IF r.exc THEN [exc |-> TRUE, obj |-> obj, stats |-> st]
             ELSE [exc |-> FALSE,
                   obj |-> r.obj,
                   stats |-> [st EXCEPT ![counter] = Incr(@, author)]]
    ELSE [exc |-> FALSE, obj |-> obj, stats |-> [st EXCEPT ![counter] = Incr(@, author)]]

\* The counter incremented before redact_date is called: a date that fails
\* to parse is counted.
RedactDateField_countsFirst(self, st, obj, author, date_type, counter) ==
    IF date_type \in DOMAIN obj
    THEN LET r == redact_date(obj, date_type, self.precision)
             st1 == [st EXCEPT ![counter] = Incr(@, author)]
         IN  IF r.exc THEN [exc |-> TRUE, obj |-> obj, stats |-> st1]
             ELSE [exc |-> FALSE, obj |-> r.obj, stats |-> st1]
    ELSE [exc |-> FALSE, obj |-> obj, stats |-> st]

\* One date field: redact_date, then the counter; nothing when the key is absent.
RedactDateField(self, st, obj, author, date_type, counter) ==
    IF date_type \in DOMAIN obj
    THEN LET r == redact_date(obj, date_type, self.precision)
         IN  IF r.exc THEN [exc |-> TRUE, obj |-> obj, stats |-> st]
             ELSE [exc |-> FALSE,
                   obj |-> r.obj,
                   stats |-> [st EXCEPT ![counter] = Incr(@, author)]]
    ELSE [exc |-> FALSE, obj |-> obj, stats |-> st]

\* The object and the stats after redact_annotation, and whether it raised.
redact_annotation(self, st, obj) ==
    IF IgnoredSubtype(obj["/Subtype"])
    THEN [exc |-> FALSE, obj |-> obj, stats |-> st]
    ELSE LET a == RedactAuthor(self, st, obj)
         IN  IF a.returned THEN [exc |-> FALSE, obj |-> a.obj, stats |-> a.stats]
             ELSE LET c == RedactDateField(self, a.stats, a.obj, a.author,
                                           "/CreationDate", "redacted_cdates")
                  IN  IF c.exc THEN c
                      ELSE RedactDateField(self, c.stats, c.obj, a.author,
                                           "/M", "redacted_mdates")

(***************************************************************************)
(* Inputs: command lines and documents                                     *)
(***************************************************************************)
MaxAnnots == 2

\* D:20230615120000+0000
CDATE == <<"D", ":", "2", "0", "2", "3", "0", "6", "1", "5",
           "1", "2", "0", "0", "0", "0", "+", "0", "0", "0", "0">>

\* D:20240229235959-05'30'
MDATE == <<"D", ":", "2", "0", "2", "4", "0", "2", "2", "9",
           "2", "3", "5", "9", "5", "9", "-", "0", "5", "'", "3", "0", "'">>

\* D:20230615120000 (no offset: does not match the format)
BADDATE == <<"D", ":", "2", "0", "2", "3", "0", "6", "1", "5",
             "1", "2", "0", "0", "0", "0">>

NoDate == <<>>

\* A dictionary object; a key is left out when its value is None (NoDate).
MkObj(subtype, t, cdate, mdate) ==
    LET keys == {"/Subtype"}
                \cup (IF t = None THEN {} ELSE {"/T"})
                \cup (IF cdate = NoDate THEN {} ELSE {"/CreationDate"})
                \cup (IF mdate = NoDate THEN {} ELSE {"/M"})
    IN  [k \in keys |->
            CASE k = "/Subtype" -> subtype
              [] k = "/T" -> t
              [] k = "/CreationDate" -> cdate
              [] k = "/M" -> mdate]

\* /CreationDate and /M of the annotations drawn: each absent, each alone,
\* both, and a malformed one in either place.
DateFields ==
    {<<NoDate, NoDate>>, <<CDATE, NoDate>>, <<NoDate, MDATE>>, <<CDATE, MDATE>>,
     <<BADDATE, MDATE>>, <<CDATE, BADDATE>>, <<NoDate, BADDATE>>}

TextAnnotations ==
    {MkObj("/Text", t, d[1], d[2]) : t \in {None, "alice", "bob"}, d \in DateFields}

LinkAnnotations ==
    {MkObj("/Link", "bob", CDATE, BADDATE), MkObj("/Link", None, BADDATE, MDATE)}

Annotations == TextAnnotations \cup LinkAnnotations

\* The annotations of a document, in page order then annotation order.
Documents == UNION {[1..n -> Annotations] : n \in 0..MaxAnnots}

\* -p/--precision as typed
PrecisionArgs ==
    {<<"n", "o", "n", "e">>, <<"D", "a", "y">>, <<"b", "o", "g", "u", "s">>}

\* -a/--authors: the names given; <<>> stands for None, the option left out
\* (nargs="+" gives no empty list, and __init__ reads "included_authors or []").
AuthorArgs == {<<>>, <<"bob">>}

\* Where -p stands on the command line relative to the two file arguments.
ArgOrders == {"options_first", "between_files", "files_first"}

(***************************************************************************)
(* main                                                                    *)
(***************************************************************************)
Init ==
    /\ pc = "start"
    /\ args = None
    /\ infile = "unopened"
    /\ outfile = "unopened"
    /\ redacter = None
    /\ stats = None
    /\ orig = <<>>
    /\ doc = <<>>
    /\ idx = 0
    /\ padYear \in BOOLEAN
    /\ tr = [step |-> -1]

\* parser.parse_args(): every argument is converted by its type as it is
\* consumed, in command-line order; argparse.FileType opens the file ("wb"
\* creates or truncates it), and a value outside choices=list(DatePrecision),
\* which a text never is in, ends the process with a usage error.
ParseArgs ==
    /\ pc = "start"
    /\ \E order \in ArgOrders, p \in PrecisionArgs, a \in AuthorArgs, r \in BOOLEAN :
        LET precision == DatePrecision_argparse(p)
        IN  IF precision.member
            THEN /\ pc' = "parsed"
                 /\ infile' = "open"
                 /\ outfile' = "truncated"
                 /\ args' = [authors |-> a,
                             redact_author_name |-> r,
                             redacted_author_name |-> DEFAULT_REDACTED_AUTHOR,
                             precision |-> precision.value]
            ELSE /\ pc' = "usage_error"
                 /\ infile' = IF order = "options_first" THEN "unopened" ELSE "open"
                 /\ outfile' = IF order = "files_first" THEN "truncated" ELSE "unopened"
                 /\ args' = args
    /\ UNCHANGED <<redacter, stats, orig, doc, idx, padYear, tr>>

\* redacter = PdfAnnotationRedacter(...)
NewRedacter ==
    /\ pc = "parsed"
    /\ redacter' = PdfAnnotationRedacter(args.authors, args.redact_author_name,
                                         args.precision, args.redacted_author_name)
    /\ stats' = AnnotationStats
    /\ pc' = "constructed"
    /\ UNCHANGED <<args, infile, outfile, orig, doc, idx, padYear, tr>>

\* redact(): PdfReader(infile) reads the document.
OpenReader ==
    /\ pc = "constructed"
    /\ \E d \in Documents :
        /\ orig' = d
        /\ doc' = d
    /\ idx' = 1
    /\ infile' = "read"
    /\ pc' = "redact"
    /\ UNCHANGED <<args, outfile, redacter, stats, padYear, tr>>

\* redact(): one turn of the loops over the pages' annotations; an exception
\* of redact_annotation leaves redact() and main().
RedactNext ==
    /\ pc = "redact"
    /\ idx <= Len(doc)
    /\ \E r \in {redact_annotation(redacter, stats, doc[idx])} :
           /\ doc' = [doc EXCEPT ![idx] = r.obj]
           /\ stats' = r.stats
           /\ idx' = IF r.exc THEN idx ELSE idx + 1
           /\ pc' = IF r.exc THEN "ValueError" ELSE pc
    /\ UNCHANGED <<args, infile, outfile, redacter, orig, padYear, tr>>

\* redact(): writer.write(outfile)
WriteOutput ==
    /\ pc = "redact"
    /\ idx > Len(doc)
    /\ outfile' = "written"
    /\ pc' = "pprint_stats"
    /\ UNCHANGED <<args, infile, redacter, stats, orig, doc, idx, padYear, tr>>

\* redacter.stats.pprint_stats()
PprintStats ==
    /\ pc = "pprint_stats"
    /\ pc' = IF pprint_stats_asserts(stats) THEN "done" ELSE "AssertionError"
    /\ UNCHANGED <<args, infile, outfile, redacter, stats, orig, doc, idx, padYear, tr>>

Next ==
    \/ ParseArgs
    \/ NewRedacter
    \/ OpenReader
    \/ RedactNext
    \/ WriteOutput
    \/ PprintStats

Spec == Init /\ [][Next]_vars

(***************************************************************************)
(* redact_date on its own: a date field truncated at prec1, and the result *)
(* truncated again at prec2.                                               *)
(***************************************************************************)
Years == {999, 2023, 2024}

Months == {2, 12}

Days == {1, 29}

Hours == {0, 23}

Minutes == {0, 30}

Seconds == {0, 59}

\* +0000, -0530, +01'00', Z, and no offset at all
Offsets ==
    {<<"+", "0", "0", "0", "0">>, <<"-", "0", "5", "3", "0">>,
     <<"+", "0", "1", "'", "0", "0", "'">>, <<"Z">>, <<"'">>}

MkRaw(y, mo, d, h, mi, s, z) ==
    <<"D", ":">> \o ZeroPad(y, 4) \o ZeroPad(mo, 2) \o ZeroPad(d, 2)
    \o ZeroPad(h, 2) \o ZeroPad(mi, 2) \o ZeroPad(s, 2) \o z

RawDates ==
    {MkRaw(y, mo, d, h, mi, s, z) :
        y \in Years, mo \in Months, d \in Days, h \in Hours,
        mi \in Minutes, s \in Seconds, z \in Offsets}

InitDate ==
    /\ pc = "idle"
    /\ args = None
    /\ infile = "unopened"
    /\ outfile = "unopened"
    /\ redacter = None
    /\ stats = None
    /\ orig = <<>>
    /\ doc = <<>>
    /\ idx = 0
    /\ padYear \in BOOLEAN
    /\ \E rdate \in RawDates, p1 \in Precisions, p2 \in Precisions :
        /\ p1 <= p2
        /\ tr = [step |-> 0, prec1 |-> p1, prec2 |-> p2,
              obj |-> MkObj("/Text", None, NoDate, rdate),
              once |-> None, twice |-> None]

TruncateOnce ==
    /\ tr.step = 0
    /\ tr' = [tr EXCEPT !.step = 1, !.once = redact_date(tr.obj, "/M", tr.prec1)]
    /\ UNCHANGED <<pc, args, infile, outfile, redacter, stats, orig, doc, idx, padYear>>

TruncateTwice ==
    /\ tr.step = 1
    /\ ~tr.once.exc
    /\ tr' = [tr EXCEPT !.step = 2, !.twice = redact_date(tr.once.obj, "/M", tr.prec2)]
    /\ UNCHANGED <<pc, args, infile, outfile, redacter, stats, orig, doc, idx, padYear>>

NextDate ==
    \/ TruncateOnce
    \/ TruncateTwice

SpecDate == InitDate /\ [][NextDate]_vars

(***************************************************************************)
(* The reading of the claims: what the fields and the counters should be,  *)
(* stated on the text of the fields and independently of the operators     *)
(* above.                                                                  *)
(***************************************************************************)
AfterRun == pc \in {"pprint_stats", "done", "AssertionError"}

Visiting == pc = "redact" /\ idx <= Len(doc)

IsLink(obj) == obj["/Subtype"] = "/Link"

HasAuthor(obj) == "/T" \in DOMAIN obj

\* The key the annotation's stats go under: its author as read, "" without one.
StatsKey(obj) == IF HasAuthor(obj) THEN obj["/T"] ELSE ""

ClearAll == redacter.included_authors = {}

\* The annotation passes the author filter, so that its dates are redacted.
Eligible(obj) ==
    /\ ~IsLink(obj)
    /\ \/ ClearAll
       \/ HasAuthor(obj) /\ obj["/T"] \in redacter.included_authors

Counters == {"authorship_ctr", "redacted_authorships", "redacted_cdates", "redacted_mdates"}

Unquoted(raw) == SelectSeq(raw, NotApostrophe)

\* D:YYYYMMDDHHMMSS followed by Z or by a sign and four digits, apostrophes aside.
FixedWidth(raw) ==
    LET s == Unquoted(raw)
    IN  /\ Len(s) \in {17, 21}
        /\ s[1] = "D"
        /\ s[2] = ":"
        /\ AllDigits(s, 3, 14)
        /\ Len(s) = 17 => s[17] = "Z"
        /\ Len(s) = 21 => s[17] \in {"+", "-"} /\ AllDigits(s, 18, 4)

\* The components written in a fixed-width date; the offset in minutes.
ComponentsOf(raw) ==
    LET s == Unquoted(raw)
    IN  [year |-> Num(s, 3, 4), month |-> Num(s, 7, 2), day |-> Num(s, 9, 2),
         hour |-> Num(s, 11, 2), minute |-> Num(s, 13, 2), second |-> Num(s, 15, 2),
         offset |-> IF Len(s) = 17 THEN 0
                    ELSE (IF s[17] = "-" THEN -1 ELSE 1)
                         * (60 * Num(s, 18, 2) + Num(s, 20, 2))]

WellFormed(raw) ==
    /\ FixedWidth(raw)
    /\ LET c == ComponentsOf(raw)
       IN  /\ c.year >= 1
           /\ c.month \in 1..12
           /\ c.day \in 1..DaysInMonth(c.year, c.month)
           /\ c.hour <= 23
           /\ c.minute <= 59
           /\ c.second <= 59
           /\ Len(Unquoted(raw)) = 21 => Num(Unquoted(raw), 20, 2) <= 59
           /\ c.offset > -1440
           /\ c.offset < 1440

LevelOf ==
    [year |-> YEAR, month |-> MONTH, day |-> DAY,
     hour |-> HOUR, minute |-> MINUTE, second |-> SECOND]

ResetValue == [year |-> 1970, month |-> 1, day |-> 1, hour |-> 0, minute |-> 0, second |-> 0]

\* The components after truncation at p: the finer ones reset, the rest kept.
Expected(c, p) ==
    [f \in DOMAIN c |->
        IF f = "offset" THEN c.offset
        ELSE IF p < LevelOf[f] THEN ResetValue[f] ELSE c[f]]

Abs(n) == IF n < 0 THEN -n ELSE n

\* D:YYYYMMDDHHMMSS+HHMM, the year as the platform writes it.
Encoded(c, pad) ==
    <<"D", ":">>
    \o (IF pad THEN ZeroPad(c.year, 4) ELSE Decimal(c.year))
    \o ZeroPad(c.month, 2) \o ZeroPad(c.day, 2)
    \o ZeroPad(c.hour, 2) \o ZeroPad(c.minute, 2) \o ZeroPad(c.second, 2)
    \o <<IF c.offset < 0 THEN "-" ELSE "+">>
    \o ZeroPad(Abs(c.offset) \div 60, 2) \o ZeroPad(Abs(c.offset) % 60, 2)

Canonical(c) == Encoded(c, TRUE)

(***************************************************************************)
(* C1.  After a run, under every policy and for every author key k (the    *)
(* empty key of the authorless annotations included), each of the three    *)
(* redacted counters is at most the seen counter: redacted_authorships[k], *)
(* redacted_cdates[k], redacted_mdates[k] <= authorship_ctr[k]; so the     *)
(* three assertions of pprint_stats hold.                                  *)
(***************************************************************************)
C1_RedactedBoundedBySeen ==
    AfterRun =>
        /\ \A c \in Counters \ {"authorship_ctr"} :
               \A k \in BagToSet(stats[c]) :
                   CopiesIn(k, stats[c]) <= CopiesIn(k, stats.authorship_ctr)
        /\ pprint_stats_asserts(stats)
        /\ pc # "AssertionError"

(***************************************************************************)
(* C2.  Under every policy, redact_annotation on a Link annotation leaves  *)
(* the object as it was, author and dates included, also when they are     *)
(* present and when a date is unparseable, changes none of the four        *)
(* counters, and does not raise.                                           *)
(***************************************************************************)
C2_LinkUntouched ==
    /\ [][(Visiting /\ IsLink(doc[idx])) =>
              (doc' = doc /\ stats' = stats /\ pc' = "redact" /\ idx' = idx + 1)]_vars
    /\ [](\A j \in 1..Len(doc) : IsLink(orig[j]) => doc[j] = orig[j])

\* A Link annotation with an author and an unparseable /M has been visited
\* under a policy that redacts names of all authors.
C2_Witness ==
    /\ pc = "redact"
    /\ idx > 1
    /\ orig[idx - 1] = MkObj("/Link", "bob", CDATE, BADDATE)
    /\ redacter.redact_author
    /\ redacter.included_authors = {}

(***************************************************************************)
(* C3.  Under a policy with a non-empty included_authors, a non-Link       *)
(* annotation without author, or whose author is not in included_authors,  *)
(* keeps its author and dates whatever redact_author and precision are; it *)
(* adds one to authorship_ctr[author] when it has an author and changes no *)
(* counter when it has none.                                               *)
(***************************************************************************)
C3_FilteredOutUntouched ==
    /\ [][(Visiting /\ ~IsLink(doc[idx]) /\ ~ClearAll /\ ~Eligible(doc[idx])) =>
              /\ doc' = doc
              /\ pc' = "redact"
              /\ \A c \in Counters \ {"authorship_ctr"} : stats'[c] = stats[c]
              /\ \A k \in BagToSet(stats'.authorship_ctr) :
                     CopiesIn(k, stats'.authorship_ctr) =
                         CopiesIn(k, stats.authorship_ctr)
                         + (IF HasAuthor(doc[idx]) /\ k = doc[idx]["/T"] THEN 1 ELSE 0)
              /\ HasAuthor(doc[idx]) => doc[idx]["/T"] \in BagToSet(stats'.authorship_ctr)]_vars
    /\ [](pc \in {"redact", "ValueError", "pprint_stats", "done", "AssertionError"} =>
              \A j \in 1..Len(doc) :
                  (~IsLink(orig[j]) /\ ~ClearAll /\ ~Eligible(orig[j])) => doc[j] = orig[j])

\* An annotation of alice with both dates has been visited under the filter
\* {bob} with name redaction on, and an authorless one before it.
C3_Witness ==
    /\ pc = "redact"
    /\ idx = 3
    /\ orig[1] = MkObj("/Text", None, CDATE, MDATE)
    /\ orig[2] = MkObj("/Text", "alice", CDATE, MDATE)
    /\ redacter.included_authors = {"bob"}
    /\ redacter.redact_author
    /\ CopiesIn("alice", stats.authorship_ctr) = 1

(***************************************************************************)
(* C4.  One Text annotation of alice with creation date                    *)
(* D:20230615120000+0000, redacted under {included_authors: [],            *)
(* redact_author: true, redacted_author_name: "unknown", precision: DAY}.  *)
(***************************************************************************)
C4_Scenario ==
    /\ AfterRun
    /\ orig = <<MkObj("/Text", "alice", CDATE, NoDate)>>
    /\ redacter = PdfAnnotationRedacter(<<>>, TRUE, DAY, "unknown")

C4_Stats ==
    /\ stats.authorship_ctr = SetToBag({"alice"})
    /\ stats.redacted_authorships = SetToBag({"alice"})
    /\ stats.redacted_cdates = SetToBag({"alice"})
    /\ stats.redacted_mdates = EmptyBag

\* C4 as claimed: the creation date becomes D:20230601000000+0000 (the day
\* reset to 01), the author "unknown", and alice counts 1 annotation, 1 name
\* and 1 creation date.
C4_DayResetTo01 ==
    C4_Scenario =>
        /\ doc[1]["/T"] = "unknown"
        /\ doc[1]["/CreationDate"] =
               <<"D", ":", "2", "0", "2", "3", "0", "6", "0", "1",
                 "0", "0", "0", "0", "0", "0", "+", "0", "0", "0", "0">>
        /\ C4_Stats

\* C4 as amended: the creation date becomes D:20230615000000+0000 (precision
\* DAY keeps the day and resets hour, minute and second), the author "unknown",
\* and alice counts 1 annotation, 1 name and 1 creation date.
C4_DayKept ==
    C4_Scenario =>
        /\ doc = <<MkObj("/Text", "unknown",
                         <<"D", ":", "2", "0", "2", "3", "0", "6", "1", "5",
                           "0", "0", "0", "0", "0", "0", "+", "0", "0", "0", "0">>,
                         NoDate)>>
        /\ C4_Stats

C4_Witness == C4_Scenario /\ pc = "done"

(***************************************************************************)
(* C5.  In clear-all mode (included_authors empty), for every non-Link     *)
(* annotation, with or without author: a creation date and a modification *)
(* date that are present (and parse) are each truncated to the policy's    *)
(* precision and counted once, in redacted_cdates resp. redacted_mdates,   *)
(* under the annotation's original author, or under "" when it has none;   *)
(* an absent date stays absent and counts nowhere; one date field is       *)
(* handled whether or not the other is present.  (A date that does not     *)
(* parse ends the run: C9.)                                                *)
(***************************************************************************)
C5_DateStep(obj, obj2, key, field, counter, reached) ==
    /\ (field \in DOMAIN obj2) = (field \in DOMAIN obj)
    /\ (field \in DOMAIN obj /\ WellFormed(obj[field]) /\ reached) =>
           /\ obj2[field] = Canonical(Expected(ComponentsOf(obj[field]), redacter.precision))
           /\ CopiesIn(key, stats'[counter]) = CopiesIn(key, stats[counter]) + 1
    /\ field \notin DOMAIN obj => stats'[counter] = stats[counter]
    /\ \A k \in BagToSet(stats'[counter]) \ {key} :
           CopiesIn(k, stats'[counter]) = CopiesIn(k, stats[counter])

C5_ClearAllDates ==
    [][(Visiting /\ ~IsLink(doc[idx]) /\ ClearAll) =>
           /\ C5_DateStep(doc[idx], doc'[idx], StatsKey(doc[idx]),
                          "/CreationDate", "redacted_cdates", TRUE)
           /\ C5_DateStep(doc[idx], doc'[idx], StatsKey(doc[idx]),
                          "/M", "redacted_mdates",
                          "/CreationDate" \in DOMAIN doc[idx] =>
                              WellFormed(doc[idx]["/CreationDate"]))]_vars

\* Clear-all at precision DAY: an authorless annotation with only /M and one
\* of alice with both dates have been visited, their dates counted under ""
\* and under alice.
C5_Witness ==
    /\ pc = "redact"
    /\ idx = 3
    /\ redacter.included_authors = {}
    /\ redacter.precision = DAY
    /\ orig[1] = MkObj("/Text", None, NoDate, MDATE)
    /\ orig[2] = MkObj("/Text", "alice", CDATE, MDATE)
    /\ doc[1]["/M"] # orig[1]["/M"]
    /\ CopiesIn("", stats.redacted_mdates) = 1
    /\ CopiesIn("", stats.redacted_cdates) = 0
    /\ CopiesIn("alice", stats.redacted_cdates) = 1

(***************************************************************************)
(* C6.  For every non-Link annotation with an author a that passes the     *)
(* filter (included_authors empty or containing a): with redact_author the *)
(* author becomes redacted_author_name and redacted_authorships[a] grows   *)
(* by one, under the original a and not under the replacement; without it  *)
(* the author stays and redacted_authorships does not change; the date     *)
(* counters are keyed by a as well; authorship_ctr[a] grows by exactly one *)
(* per such annotation.                                                    *)
(***************************************************************************)
C6_OnlyKeyGrows(counter, key, by) ==
    \A k \in BagToSet(stats[counter]) \cup BagToSet(stats'[counter]) :
        CopiesIn(k, stats'[counter]) =
            CopiesIn(k, stats[counter]) + (IF k = key THEN by ELSE 0)

C6_AuthorRedaction ==
    [][(Visiting /\ HasAuthor(doc[idx]) /\ Eligible(doc[idx])) =>
           LET a == doc[idx]["/T"]
           IN  /\ C6_OnlyKeyGrows("authorship_ctr", a, 1)
               /\ IF redacter.redact_author
                  THEN /\ doc'[idx]["/T"] = redacter.redacted_author
                       /\ C6_OnlyKeyGrows("redacted_authorships", a, 1)
                  ELSE /\ doc'[idx]["/T"] = a
                       /\ stats'.redacted_authorships = stats.redacted_authorships
               /\ \E n \in {0, 1} : C6_OnlyKeyGrows("redacted_cdates", a, n)
               /\ \E n \in {0, 1} : C6_OnlyKeyGrows("redacted_mdates", a, n)
               /\ \A j \in 1..Len(doc) : j # idx => doc'[j] = doc[j]]_vars

\* Two annotations of bob have been visited under the filter {bob} with name
\* redaction on: both carry the replacement name, and bob counts twice.
C6_Witness ==
    /\ pc = "redact"
    /\ idx = 3
    /\ redacter.included_authors = {"bob"}
    /\ redacter.redact_author
    /\ orig[1]["/Subtype"] = "/Text"
    /\ orig[2] = MkObj("/Text", "bob", CDATE, MDATE)
    /\ HasAuthor(orig[1]) /\ orig[1]["/T"] = "bob"
    /\ doc[1]["/T"] = "unknown"
    /\ doc[2]["/T"] = "unknown"
    /\ CopiesIn("bob", stats.authorship_ctr) = 2
    /\ CopiesIn("bob", stats.redacted_authorships) = 2
    /\ CopiesIn("unknown", stats.redacted_authorships) = 0

(***************************************************************************)
(* C9.  When date redaction reaches a creation or modification date that   *)
(* is present and does not match the format, the run ends with the error   *)
(* at the first such field: no later field and no later annotation is      *)
(* visited or mutated, the counter of the failing field is not             *)
(* incremented, and what was done to the earlier annotations and counted   *)
(* for them stays (no rollback).                                           *)
(***************************************************************************)
C9_DateKeys == <<"/CreationDate", "/M">>

C9_CounterOf == <<"redacted_cdates", "redacted_mdates">>

C9_Malformed(obj, n) == C9_DateKeys[n] \in DOMAIN obj /\ ~WellFormed(obj[C9_DateKeys[n]])

\* The first date field of the annotation that does not parse; 0 when none.
C9_FirstMalformed(obj) ==
    IF C9_Malformed(obj, 1) THEN 1 ELSE IF C9_Malformed(obj, 2) THEN 2 ELSE 0

C9_AbortsAtFirstMalformedDate ==
    \* the run fails exactly at an eligible annotation with a malformed date,
    \* there, and with everything else as it was
    /\ [][Visiting =>
              LET obj == doc[idx]
                  n == C9_FirstMalformed(obj)
              IN  IF Eligible(obj) /\ n # 0
                  THEN /\ pc' = "ValueError"
                       /\ idx' = idx
                       /\ \A j \in 1..Len(doc) : j # idx => doc'[j] = doc[j]
                       /\ \A m \in n..2 :
                              /\ (C9_DateKeys[m] \in DOMAIN obj) =>
                                     doc'[idx][C9_DateKeys[m]] = obj[C9_DateKeys[m]]
                              /\ stats'[C9_CounterOf[m]] = stats[C9_CounterOf[m]]
                       /\ \A c \in Counters : \A k \in BagToSet(stats[c]) :
                              CopiesIn(k, stats'[c]) >= CopiesIn(k, stats[c])
                  ELSE pc' = "redact" /\ idx' = idx + 1]_vars
    \* nothing runs after the error: nothing is visited, written or printed
    /\ [][pc # "ValueError"]_vars
    \* the annotations after the failing one are as they were read
    /\ [](pc = "ValueError" =>
              /\ outfile # "written"
              /\ \A j \in (idx + 1)..Len(doc) : doc[j] = orig[j])

\* The run failed on the /M of the second annotation after its /CreationDate
\* was truncated and counted, and after the first annotation was redacted.
C9_Witness ==
    /\ pc = "ValueError"
    /\ idx = 2
    /\ redacter.included_authors = {}
    /\ redacter.redact_author
    /\ orig[1] = MkObj("/Text", "alice", CDATE, MDATE)
    /\ orig[2] = MkObj("/Text", "bob", CDATE, BADDATE)
    /\ doc[1] # orig[1]
    /\ doc[2]["/CreationDate"] # CDATE
    /\ doc[2]["/M"] = BADDATE
    /\ CopiesIn("bob", stats.redacted_cdates) = 1
    /\ CopiesIn("bob", stats.redacted_mdates) = 0
    /\ CopiesIn("alice", stats.redacted_mdates) = 1

(***************************************************************************)
(* C10.  A precision name that is none of the eight level names, compared  *)
(* without regard to case, is rejected before any document is touched: no  *)
(* input document is read, no annotation mutated, no stats recorded, and   *)
(* no output opened or written.                                            *)
(***************************************************************************)
C10_RejectedBeforeAnyFileIsTouched ==
    pc = "usage_error" =>
        /\ infile # "read"
        /\ outfile = "unopened"
        /\ doc = <<>>
        /\ stats = None

(***************************************************************************)
(* C7.  For every precision p and every well-formed timestamp, redact_date *)
(* resets exactly the components strictly finer than p (second, minute,    *)
(* hour to 0; day, month to 1; year to 1970) and leaves the components at  *)
(* or coarser than p and the offset as they were.                          *)
(***************************************************************************)
C7_Input == tr.obj["/M"]

C7_Result == tr.once.obj["/M"]

C7_Truncated == tr.step >= 1 /\ WellFormed(C7_Input)

\* C7 as claimed: the date field written reads back, in the wire format, with
\* the components so reset; p = NONE yields D:19700101000000 in the original
\* offset, and p = MICRO yields the original, unmodified value of the field.
C7_ResetsFinerAndMicroIsIdentity ==
    C7_Truncated =>
        /\ ~tr.once.exc
        /\ FixedWidth(C7_Result)
        /\ ComponentsOf(C7_Result) = Expected(ComponentsOf(C7_Input), tr.prec1)
        /\ tr.prec1 = MICRO => C7_Result = C7_Input

\* C7 as amended: the field is rewritten with format_date's encoding of the
\* components so reset (the year as the platform's %Y writes it, four digits
\* for every year from 1000 on), the offset always as +HHMM or -HHMM without
\* apostrophes.  So p = NONE yields D:19700101000000 in the original offset,
\* and p = MICRO yields the original value re-encoded, not the unmodified
\* field: a value D:YYYYMMDDHHMMSS+HH'mm' comes back without its apostrophes.
C7_ResetsFinerAndReencodes ==
    C7_Truncated =>
        /\ ~tr.once.exc
        /\ C7_Result = Encoded(Expected(ComponentsOf(C7_Input), tr.prec1), padYear)
        /\ tr.prec1 = NONE =>
               /\ SubSeq(C7_Result, 1, 16) =
                      <<"D", ":", "1", "9", "7", "0", "0", "1", "0", "1",
                        "0", "0", "0", "0", "0", "0">>
               /\ ComponentsOf(C7_Result).offset = ComponentsOf(C7_Input).offset
        /\ (tr.prec1 = MICRO /\ Len(Unquoted(C7_Input)) = 21
                /\ (padYear \/ ComponentsOf(C7_Input).year >= 1000)) =>
               C7_Result = Unquoted(C7_Input)

\* A date with apostrophes in its offset was truncated at MICRO and did not
\* come back as it was; one was truncated at MONTH.
C7_Witness ==
    /\ C7_Truncated
    /\ ~tr.once.exc
    /\ tr.step = 1
    /\ tr.prec1 = MICRO
    /\ C7_Input # Unquoted(C7_Input)
    /\ C7_Result = Unquoted(C7_Input)
    /\ C7_Result # C7_Input

(***************************************************************************)
(* C8.  For all precisions p1 <= p2 and every well-formed timestamp d,     *)
(* truncating d at p1 and the result at p2 gives what truncating d at p1   *)
(* gives; with p1 = p2, truncating twice equals truncating once.           *)
(***************************************************************************)
C8_SecondTruncationChangesNothing ==
    (tr.step = 2 /\ WellFormed(C7_Input) /\ tr.prec1 <= tr.prec2) =>
        /\ ~tr.twice.exc
        /\ tr.twice.obj = tr.once.obj

====
